---- MODULE Spec2Model ----
(***************************************************************************)
(* The borrow/return lifecycle of the library API (api/serializers.py,     *)
(* api/signals.py, api/models.py).  Requests are served concurrently: the  *)
(* serializer's validation runs before, and outside, the transaction that  *)
(* create()/save() open, and nothing locks a row, so the reads of a request *)
(* and the commit of its transaction are steps of their own and the steps  *)
(* of different requests interleave.  A transaction's writes become        *)
(* visible together, when it commits.                                      *)
(*                                                                         *)
(* Time is counted in ticks, TicksPerDay of them to a day.                 *)
(***************************************************************************)
EXTENDS Integers, Sequences, FiniteSets

VARIABLES db, clock, reqs, db0

vars == <<db, clock, reqs, db0>>

----------------------------------------------------------------------------
(* Bounds of the model *)

MaxReqs == 2

MaxTicks == 1

TicksPerDay == 2

(* Program constants *)

LoanDays == 14

PenaltyLimit == 50

BorrowLimit == 3

PenaltyPerDay == 2

NoSuchId == 999

NULL == -1

Day == TicksPerDay

Clock0 == 40 * Day

MaxClock == Clock0 + MaxTicks

Reqs == 1..MaxReqs

Users == {"u1", "u2"}

BookIds == {1, 2}

----------------------------------------------------------------------------
(* api/models.py: the rows *)

Book(total, available) == [total_copies |-> total, available_copies |-> available]

User(points, email) == [penalty_points |-> points, email |-> email]

Borrow(user, book, borrow_date, due_date, return_date) ==
    [user |-> user, book |-> book, borrow_date |-> borrow_date,
     due_date |-> due_date, return_date |-> return_date]

(* Borrow.objects.filter(user=user, return_date__isnull=True).count() *)
ActiveBorrows(borrows, user) ==
    Cardinality({i \in DOMAIN borrows :
                    borrows[i].user = user /\ borrows[i].return_date = NULL})

(* the open Borrow rows of one book (used by the properties) *)
OpenOn(borrows, book) ==
    Cardinality({i \in DOMAIN borrows :
                    borrows[i].book = book /\ borrows[i].return_date = NULL})

----------------------------------------------------------------------------
(* api/signals.py: the post_save receiver *)

Letters == {"a", "b", "c"}

Digits == {"1"}

LocalChars == Letters \cup Digits \cup {".", "_", "%", "+", "-"}

DomainChars == Letters \cup Digits \cup {".", "-"}

(* ^[a-zA-Z0-9._%+-]+@[a-zA-Z0-9.-]+\.[a-zA-Z]{2,}$ matched against the     *)
(* whole of s: a local part, "@", a domain, ".", two or more letters.       *)
FullMatch(s) ==
    \E i, j \in 1..Len(s) :
        /\ 1 < i /\ i + 1 < j /\ j + 2 <= Len(s)
        /\ s[i] = "@" /\ s[j] = "."
        /\ \A k \in 1..(i - 1) : s[k] \in LocalChars
        /\ \A k \in (i + 1)..(j - 1) : s[k] \in DomainChars
        /\ \A k \in (j + 1)..Len(s) : s[k] \in Letters

(* re.match with a pattern ending in $: $ also matches before one final    *)
(* newline.                                                                *)
EmailMatch(s) ==
    \/ FullMatch(s)
    \/ /\ Len(s) > 0
       /\ s[Len(s)] = "\n"
       /\ FullMatch(SubSeq(s, 1, Len(s) - 1))

(* send_due_date_notification, lines 14-32: what the receiver does for a   *)
(* row that was created                                                    *)
Notify(email) ==
    IF email = <<>> THEN "missing"
    ELSE IF ~EmailMatch(email) THEN "invalid"
    ELSE "sent"

(* a receiver that does not look at created *)
NotifyOnEverySave(email, created) == Notify(email)

(* send_due_date_notification(sender, instance, created): post_save calls  *)
(* it after every save of a Borrow, created tells an insert from an update *)
SendDueDateNotification(email, created) ==
    IF created THEN Notify(email) ELSE "skipped"

(* instance.due_date.strftime('%Y-%m-%d'): the day, without the time *)
FormatDate(t) == t \div Day

Message(to, book, due_date) ==
    [to |-> to, book |-> book, due_date |-> FormatDate(due_date)]

----------------------------------------------------------------------------
(* api/serializers.py: BorrowSerializer *)

(* book_id = PrimaryKeyRelatedField(queryset=Book.objects.all()) *)
BookExists(books, id) == id \in DOMAIN books

(* a validate that looks at the stock before the borrow limit *)
BorrowValidateStockFirst(points, active, available) ==
    IF points >= PenaltyLimit THEN "PenaltyLimitExceeded"
    ELSE IF available <= 0 THEN "OutOfStock"
    ELSE IF active >= BorrowLimit THEN "BorrowLimitExceeded"
    ELSE "ok"

(* BorrowSerializer.validate on the values the request has read *)
BorrowValidate(points, active, available) ==
    IF points >= PenaltyLimit THEN "PenaltyLimitExceeded"
    ELSE IF active >= BorrowLimit THEN "BorrowLimitExceeded"
    ELSE IF available <= 0 THEN "OutOfStock"
    ELSE "ok"

(* book.available_copies -= 1 on the instance validation loaded *)
Decrement(book) == [book EXCEPT !.available_copies = @ - 1]

(* due_date=timezone.now() + timedelta(days=14) *)
DueDate(now) == now + LoanDays * Day

(* a block that keeps what was written before the exception *)
NoRollback(before, written) == written

(* with transaction.atomic(): an exception inside the block, or the death  *)
(* of the process before the commit, leaves the database as it was before  *)
(* the block                                                               *)
Rollback(before, written) == before

(* a create that keeps its writes when the receiver raises *)
BorrowCreateKeepsWrites(d, bid, book, user, now1, now2) ==
    LET row == Borrow(user, bid, now1, DueDate(now2), NULL)
        written == [d EXCEPT !.books[bid] = Decrement(book),
                             !.borrows = Append(@, row)]
    IN  IF Notify(d.users[user].email) = "sent"
        THEN [db |-> [written EXCEPT
                         !.outbox = Append(@, Message(user, bid, row.due_date))],
              outcome |-> "ok"]
        ELSE [db |-> written, outcome |-> "InvalidNotificationTarget"]

(* BorrowSerializer.create: book is the instance loaded by validation (its *)
(* id is bid), now1 and now2 the two readings of the clock.  The receiver  *)
(* runs inside the atomic block, so its exception rolls the block back.    *)
BorrowCreate(d, bid, book, user, now1, now2) ==
    LET row == Borrow(user, bid, now1, DueDate(now2), NULL)
        written == [d EXCEPT !.books[bid] = Decrement(book),
                             !.borrows = Append(@, row)]
        sent == SendDueDateNotification(d.users[user].email, TRUE)
    IN  IF sent = "sent"
        THEN [db |-> [written EXCEPT
                         !.outbox = Append(@, Message(user, bid, row.due_date))],
              outcome |-> "ok"]
        ELSE [db |-> Rollback(d, written),
              outcome |-> "InvalidNotificationTarget"]

----------------------------------------------------------------------------
(* api/serializers.py: ReturnSerializer *)

(* a validate_borrow_id that looks at the owner before the return_date *)
ValidateBorrowIdOwnerFirst(borrows, user, id) ==
    IF id \notin DOMAIN borrows THEN "InvalidOrAlreadyReturned"
    ELSE IF borrows[id].user # user THEN "NotOwner"
    ELSE IF borrows[id].return_date # NULL THEN "InvalidOrAlreadyReturned"
    ELSE "ok"

(* a validate_borrow_id that turns away a user at the borrow limit *)
ValidateBorrowIdUnderLimit(borrows, user, id) ==
    IF ActiveBorrows(borrows, user) >= BorrowLimit THEN "BorrowLimitExceeded"
    ELSE IF ~(id \in DOMAIN borrows /\ borrows[id].return_date = NULL)
    THEN "InvalidOrAlreadyReturned"
    ELSE IF borrows[id].user # user THEN "NotOwner"
    ELSE "ok"

(* Borrow.objects.get(id=value, return_date__isnull=True), then the owner *)
ValidateBorrowId(borrows, user, id) ==
    IF ~(id \in DOMAIN borrows /\ borrows[id].return_date = NULL)
    THEN "InvalidOrAlreadyReturned"
    ELSE IF borrows[id].user # user THEN "NotOwner"
    ELSE "ok"

Max(a, b) == IF a >= b THEN a ELSE b

(* max((return_date - due_date).days, 0) when return_date > due_date *)
DaysLate(return_date, due_date) ==
    IF return_date > due_date
    THEN Max((return_date - due_date) \div Day, 0)
    ELSE 0

(* the rows save() has loaded: borrow, borrow.book, borrow.user *)
Loaded(d, id) ==
    [borrow |-> d.borrows[id],
     book |-> d.books[d.borrows[id].book],
     owner |-> d.users[d.borrows[id].user]]

(* a return that leaves the copy out *)
IncrementNothing(book) == book

(* book.available_copies += 1 on the instance save() loaded *)
Increment(book) == [book EXCEPT !.available_copies = @ + 1]

(* ReturnSerializer.save from the loaded rows, up to and including the     *)
(* n-th of borrow.save(), book.save(), user.save(); each writes the whole  *)
(* row back, and borrow.save() calls the post_save receiver with           *)
(* created=False                                                           *)
SaveUpTo(d, id, rows, now, n) ==
    LET late == DaysLate(now, rows.borrow.due_date)
        borrow == [rows.borrow EXCEPT !.return_date = now]
        sent == SendDueDateNotification(rows.owner.email, FALSE)
        d1 == IF n < 1 THEN d
              ELSE [d EXCEPT
                      !.borrows[id] = borrow,
                      !.outbox = IF sent = "sent"
                                 THEN Append(@, Message(borrow.user, borrow.book,
                                                        borrow.due_date))
                                 ELSE @]
        d2 == IF n < 2 THEN d1
              ELSE [d1 EXCEPT !.books[borrow.book] = Increment(rows.book)]
    IN  IF n < 3 THEN d2
        ELSE [d2 EXCEPT
                !.users[borrow.user] =
                    [rows.owner EXCEPT !.penalty_points = @ + late * PenaltyPerDay]]

(* ReturnSerializer.save: the three saves, then the block commits *)
ReturnSave(d, id, rows, now) == SaveUpTo(d, id, rows, now, 3)

----------------------------------------------------------------------------
(* The requests in flight.  A request keeps what it has read so far: the   *)
(* acting user's row as authentication loaded it (points), the Book that   *)
(* field validation loaded (book), the rows save() loaded (rows), and the  *)
(* clock readings it took (now, now2).  A request for a user's penalties   *)
(* carries the pk of its URL and ends with the penalty_points it was sent  *)
(* (data).                                                                 *)

NoRows == [borrow |-> Borrow("none", 0, 0, 0, NULL),
           book |-> Book(0, 0),
           owner |-> User(0, <<>>)]

Idle == [pc |-> "idle", op |-> "none", user |-> "none", arg |-> 0,
         outcome |-> "none", points |-> 0, book |-> Book(0, 0),
         rows |-> NoRows, now |-> 0, now2 |-> 0, pk |-> "none", data |-> 0]

(* the response: the request's locals are gone, its outcome is kept *)
Finish(q, outcome) ==
    [Idle EXCEPT !.pc = "done", !.op = q.op, !.user = q.user, !.arg = q.arg,
                 !.outcome = outcome, !.now = q.now, !.now2 = q.now2,
                 !.pk = q.pk, !.data = q.data]

----------------------------------------------------------------------------
(* The database the service starts from: two books, two registered users   *)
(* (registration accepts any email and any penalty_points), and the first  *)
(* k of u1's earlier loans still open, each with its copy taken and its    *)
(* confirmation sent: one 6 days overdue, one overdue by a single tick,    *)
(* one 25 days overdue.                                                    *)

TotalCopies == [b \in BookIds |-> b]

ValidEmail == <<"a", "@", "b", ".", "c", "c">>

(* u2 as registered: able to borrow, without an email, with a malformed   *)
(* one, or at the penalty limit                                            *)
InitU2 == {User(0, ValidEmail), User(0, <<>>), User(0, <<"a", "@", "b">>),
           User(PenaltyLimit, ValidEmail)}

Loan(user, book, due_date) ==
    Borrow(user, book, due_date - LoanDays * Day, due_date, NULL)

InitLoans ==
    << Loan("u1", 2, Clock0 - 6 * Day),
       Loan("u1", 2, Clock0 - 1),
       Loan("u1", 1, Clock0 - 25 * Day) >>

InitDB(k, u2) ==
    LET loans == SubSeq(InitLoans, 1, k)
    IN  [books |-> [b \in BookIds |->
                        Book(TotalCopies[b], TotalCopies[b] - OpenOn(loans, b))],
         users |-> [u \in Users |->
                        IF u = "u1" THEN User(0, ValidEmail) ELSE u2],
         borrows |-> loans,
         outbox |-> [i \in 1..k |->
                        Message(loans[i].user, loans[i].book, loans[i].due_date)]]

(* the starts explored: any number of u1's loans open beside a u2 able to  *)
(* borrow, every u2 beside no open loan, and u2 at the penalty limit       *)
(* beside all of u1's loans                                                *)
InitCases ==
    {<<k, User(0, ValidEmail)>> : k \in 0..Len(InitLoans)}
    \cup {<<0, u2>> : u2 \in InitU2}
    \cup {<<Len(InitLoans), User(PenaltyLimit, ValidEmail)>>}

Init ==
    /\ \E c \in InitCases : db = InitDB(c[1], c[2])
    /\ db0 = db
    /\ clock = Clock0
    /\ reqs = [r \in Reqs |-> Idle]

----------------------------------------------------------------------------
(* POST /borrow/ : BorrowView -> BorrowSerializer *)

(* requests are numbered in the order they arrive *)
InOrder(r) == IF r = 1 THEN TRUE ELSE reqs[r - 1].pc # "idle"

(* the request arrives and authentication loads request.user *)
StartBorrow(r) ==
    /\ reqs[r].pc = "idle"
    /\ InOrder(r)
    /\ \E user \in Users, arg \in BookIds \cup {NoSuchId} :
          reqs' = [reqs EXCEPT ![r] =
                      [Idle EXCEPT !.pc = "field", !.op = "borrow",
                                   !.user = user, !.arg = arg,
                                   !.points = db.users[user].penalty_points]]
    /\ UNCHANGED <<db, clock, db0>>

(* field validation: book_id is looked up and the Book instance kept *)
BorrowField(r) ==
    /\ reqs[r].pc = "field"
    /\ LET q == reqs[r]
       IN  reqs' = [reqs EXCEPT ![r] =
                       IF BookExists(db.books, q.arg)
                       THEN [q EXCEPT !.pc = "validate", !.book = db.books[q.arg]]
                       ELSE Finish(q, "BookNotFound")]
    /\ UNCHANGED <<db, clock, db0>>

(* a validate that takes the copy before it has checked anything *)
BorrowCheckTakesCopy(r) ==
    /\ reqs[r].pc = "validate"
    /\ LET q == reqs[r]
           v == BorrowValidate(q.points, ActiveBorrows(db.borrows, q.user),
                               q.book.available_copies)
       IN  /\ db' = [db EXCEPT !.books[q.arg] = Decrement(q.book)]
           /\ reqs' = [reqs EXCEPT ![r] =
                          IF v = "ok" THEN [q EXCEPT !.pc = "create"]
                          ELSE Finish(q, v)]
    /\ UNCHANGED <<clock, db0>>

(* BorrowSerializer.validate: the count is queried now, the points and the *)
(* available copies are those of the instances loaded before               *)
BorrowCheck(r) ==
    /\ reqs[r].pc = "validate"
    /\ LET q == reqs[r]
           v == BorrowValidate(q.points, ActiveBorrows(db.borrows, q.user),
                               q.book.available_copies)
       IN  reqs' = [reqs EXCEPT ![r] =
                       IF v = "ok" THEN [q EXCEPT !.pc = "create"]
                       ELSE Finish(q, v)]
    /\ UNCHANGED <<db, clock, db0>>

(* BorrowSerializer.create: the atomic block, the clock read twice *)
BorrowCommit(r) ==
    /\ reqs[r].pc = "create"
    /\ \E now2 \in clock..(clock + 1) :
          /\ now2 <= MaxClock
          /\ LET q == reqs[r]
                 res == BorrowCreate(db, q.arg, q.book, q.user, clock, now2)
             IN  /\ db' = res.db
                 /\ reqs' = [reqs EXCEPT ![r] =
                                Finish([q EXCEPT !.now = clock, !.now2 = now2],
                                       res.outcome)]
          /\ clock' = now2
    /\ UNCHANGED db0

----------------------------------------------------------------------------
(* POST /return/ : ReturnView -> ReturnSerializer *)

(* the request arrives (authentication gives the acting user's identity,   *)
(* all a return uses of it) and ReturnSerializer.validate_borrow_id runs   *)
StartReturn(r) ==
    /\ reqs[r].pc = "idle"
    /\ InOrder(r)
    /\ \E user \in Users, arg \in DOMAIN db.borrows \cup {NoSuchId} :
          LET q == [Idle EXCEPT !.op = "return", !.user = user, !.arg = arg]
              v == ValidateBorrowId(db.borrows, user, arg)
          IN  reqs' = [reqs EXCEPT ![r] =
                          IF v = "ok" THEN [q EXCEPT !.pc = "save"]
                          ELSE Finish(q, v)]
    /\ UNCHANGED <<db, clock, db0>>

(* ReturnSerializer.save, lines 128-131: the three rows are read inside    *)
(* the atomic block and the clock is read                                  *)
ReturnLoad(r) ==
    /\ reqs[r].pc = "save"
    /\ LET q == reqs[r]
       IN  reqs' = [reqs EXCEPT ![r] =
                       [q EXCEPT !.pc = "commit", !.rows = Loaded(db, q.arg),
                                 !.now = clock, !.now2 = clock]]
    /\ UNCHANGED <<db, clock, db0>>

(* ReturnSerializer.save, lines 132-139: the rows are written and the      *)
(* block commits                                                           *)
ReturnCommit(r) ==
    /\ reqs[r].pc = "commit"
    /\ db' = ReturnSave(db, reqs[r].arg, reqs[r].rows, reqs[r].now)
    /\ reqs' = [reqs EXCEPT ![r] = Finish(reqs[r], "ok")]
    /\ UNCHANGED <<clock, db0>>

(* the server clock advances; only a request about to read the clock can   *)
(* tell, so time is let pass only ahead of such a read                     *)
Tick ==
    /\ clock < MaxClock
    /\ \E r \in Reqs : reqs[r].pc \in {"create", "save"}
    /\ clock' = clock + 1
    /\ UNCHANGED <<db, reqs, db0>>

Next ==
    \/ \E r \in Reqs : StartBorrow(r)
    \/ \E r \in Reqs : BorrowField(r)
    \/ \E r \in Reqs : BorrowCheck(r)
    \/ \E r \in Reqs : BorrowCommit(r)
    \/ \E r \in Reqs : StartReturn(r)
    \/ \E r \in Reqs : ReturnLoad(r)
    \/ \E r \in Reqs : ReturnCommit(r)
    \/ Tick

Spec == Init /\ [][Next]_vars

----------------------------------------------------------------------------
(* Properties *)

Done(r) == reqs[r].pc = "done"

Finishes(r) == reqs[r].pc # "done" /\ reqs'[r].pc = "done"

(* the Borrow rows created since the start, for one book *)
NewBorrowsOn(book) ==
    {i \in (Len(db0.borrows) + 1)..Len(db.borrows) : db.borrows[i].book = book}

(* C1: every Book has 0 <= available_copies <= total_copies in every       *)
(* reachable state.                                                        *)
CopiesInRange ==
    \A b \in BookIds :
        /\ 0 <= db.books[b].available_copies
        /\ db.books[b].available_copies <= db.books[b].total_copies

(* C2: while only CreateBorrow requests run, a book that had exactly one   *)
(* available copy gets at most one new Borrow record.                      *)
LastCopyBorrowedOnce ==
    \A b \in BookIds :
        (/\ db0.books[b].available_copies = 1
         /\ \A r \in Reqs : reqs[r].op # "return")
        => Cardinality(NewBorrowsOn(b)) <= 1

(* C3: of the CreateReturn requests on one borrow id at most one succeeds, *)
(* and when two by the owner of an open Borrow have finished the other one *)
(* has failed with InvalidOrAlreadyReturned.                               *)
OneReturnPerBorrow ==
    \A r1, r2 \in Reqs :
        (/\ r1 # r2 /\ Done(r1) /\ Done(r2)
         /\ reqs[r1].op = "return" /\ reqs[r2].op = "return"
         /\ reqs[r1].arg = reqs[r2].arg
         /\ reqs[r1].outcome = "ok")
        => reqs[r2].outcome = "InvalidOrAlreadyReturned"

(* C4: every user has at most 3 Borrow rows with return_date null.         *)
AtMostThreeOpen ==
    \A u \in Users : ActiveBorrows(db.borrows, u) <= BorrowLimit

----------------------------------------------------------------------------
(* One request run alone, start to finish, on the database d at the clock  *)
(* readings the request took.                                              *)

SerialBorrow(d, q) ==
    IF ~BookExists(d.books, q.arg)
    THEN [db |-> d, outcome |-> "BookNotFound"]
    ELSE LET v == BorrowValidate(d.users[q.user].penalty_points,
                                 ActiveBorrows(d.borrows, q.user),
                                 d.books[q.arg].available_copies)
         IN  IF v # "ok"
             THEN [db |-> d, outcome |-> v]
             ELSE BorrowCreate(d, q.arg, d.books[q.arg], q.user, q.now, q.now2)

SerialReturn(d, q) ==
    LET v == ValidateBorrowId(d.borrows, q.user, q.arg)
    IN  IF v # "ok"
        THEN [db |-> d, outcome |-> v]
        ELSE [db |-> ReturnSave(d, q.arg, Loaded(d, q.arg), q.now),
              outcome |-> "ok"]

Serial(d, q) == IF q.op = "borrow" THEN SerialBorrow(d, q) ELSE SerialReturn(d, q)

(* the requests order[i..] run one after the other from d: the database    *)
(* they leave, and whether each ended as it ended in this run              *)
RECURSIVE SerialRun(_, _, _)
SerialRun(d, order, i) ==
    IF i > Len(order)
    THEN [db |-> d, same |-> TRUE]
    ELSE LET one == Serial(d, reqs[order[i]])
             rest == SerialRun(one.db, order, i + 1)
         IN  [db |-> rest.db,
              same |-> rest.same /\ one.outcome = reqs[order[i]].outcome]

Started == {r \in Reqs : reqs[r].pc # "idle"}

Orders(S) ==
    {f \in [1..Cardinality(S) -> S] :
        \A i, j \in 1..Cardinality(S) : i # j => f[i] # f[j]}

(* C5: when every request has finished, the books, borrows, penalty points *)
(* and outcomes are those of the same requests run in some serial order.   *)
Serializable ==
    (\A r \in Reqs : reqs[r].pc \in {"idle", "done"})
    => \E order \in Orders(Started) :
          LET run == SerialRun(db0, order, 1)
          IN  /\ run.same
              /\ run.db.books = db.books
              /\ run.db.borrows = db.borrows
              /\ run.db.users = db.users

(* C6: a Borrow with return_date set is never changed again, and a         *)
(* CreateReturn validated against it fails with InvalidOrAlreadyReturned.  *)
ReturnedIsFinal ==
    [][\A i \in DOMAIN db.borrows :
          db.borrows[i].return_date # NULL
          => /\ db'.borrows[i] = db.borrows[i]
             /\ \A r \in Reqs :
                   (/\ reqs[r].pc = "idle"
                    /\ reqs'[r].op = "return"
                    /\ reqs'[r].arg = i)
                   => reqs'[r].outcome = "InvalidOrAlreadyReturned"]_vars

BorrowFailures ==
    {"BookNotFound", "PenaltyLimitExceeded", "BorrowLimitExceeded", "OutOfStock"}

(* the first precondition of CreateBorrow that fails on what request q has *)
(* read when it is validated against the borrows table: the book looked up *)
(* by its id, the acting user's points, the user's open borrows, the       *)
(* book's available copies, in this order; "none" when all of them pass    *)
FirstViolated(q, found, borrows) ==
    IF ~found THEN "BookNotFound"
    ELSE IF q.points >= PenaltyLimit THEN "PenaltyLimitExceeded"
    ELSE IF ActiveBorrows(borrows, q.user) >= BorrowLimit THEN "BorrowLimitExceeded"
    ELSE IF q.book.available_copies <= 0 THEN "OutOfStock"
    ELSE "none"

(* C7: CreateBorrow checks book exists, points < 50, open borrows < 3,     *)
(* available copies > 0 in this order and reports the first that fails:    *)
(* the lookup of an unknown book ends the request with BookNotFound        *)
(* whatever the user's points, and validation ends it with the first of    *)
(* PenaltyLimitExceeded, BorrowLimitExceeded, OutOfStock that applies, or  *)
(* lets it go on to create when none does.                                 *)
BorrowChecksInOrder ==
    [][\A r \in Reqs :
          (reqs[r].pc \in {"field", "validate"} /\ reqs'[r] # reqs[r])
          => LET q == reqs[r]
                 first == IF q.pc = "field"
                          THEN (IF q.arg \in BookIds THEN "none" ELSE "BookNotFound")
                          ELSE FirstViolated(q, TRUE, db.borrows)
             IN  /\ reqs'[r].outcome = first
                 /\ reqs'[r].pc = "done" <=> first # "none"]_vars

(* C7 witness: one request refused for the borrow limit on a book that is  *)
(* also out of stock, another refused for an unknown book while its user   *)
(* is also over the penalty limit                                          *)
SeveralViolatedReported ==
    \E r1, r2 \in Reqs :
        /\ Done(r1) /\ reqs[r1].outcome = "BorrowLimitExceeded"
        /\ db.books[reqs[r1].arg].available_copies = 0
        /\ Done(r2) /\ reqs[r2].outcome = "BookNotFound"
        /\ db.users[reqs[r2].user].penalty_points >= PenaltyLimit

(* C8: a CreateBorrow that fails with BookNotFound, PenaltyLimitExceeded,  *)
(* BorrowLimitExceeded or OutOfStock changes no book, borrow, user or      *)
(* notification: no step of a borrow request other than its successful     *)
(* create writes to the database.                                          *)
FailedBorrowChangesNothing ==
    [][\A r \in Reqs :
          (/\ reqs'[r].op = "borrow"
           /\ reqs'[r] # reqs[r]
           /\ reqs'[r].pc = "done" => reqs'[r].outcome \in BorrowFailures)
          => db' = db]_vars

(* C8 witness: a borrow refused for lack of stock, the database as it was *)
RefusedOutOfStock ==
    \E r \in Reqs :
        /\ Done(r) /\ reqs[r].op = "borrow" /\ reqs[r].outcome = "OutOfStock"
        /\ db = db0

(* C9: a successful CreateBorrow lowers the book's available_copies by     *)
(* exactly 1, adds exactly one open Borrow of the acting user for that     *)
(* book, and leaves the other books and every user's points unchanged.     *)
BorrowTakesOneCopy ==
    [][\A r \in Reqs :
          (reqs[r].op = "borrow" /\ Finishes(r) /\ reqs'[r].outcome = "ok")
          => LET b == reqs[r].arg
                 n == Len(db.borrows)
             IN  /\ db'.books[b].available_copies = db.books[b].available_copies - 1
                 /\ db'.books[b].total_copies = db.books[b].total_copies
                 /\ \A o \in BookIds \ {b} : db'.books[o] = db.books[o]
                 /\ Len(db'.borrows) = n + 1
                 /\ SubSeq(db'.borrows, 1, n) = db.borrows
                 /\ db'.borrows[n + 1].user = reqs[r].user
                 /\ db'.borrows[n + 1].book = b
                 /\ db'.borrows[n + 1].return_date = NULL
                 /\ db'.users = db.users]_vars

(* C10: every Borrow row has due_date = borrow_date + 14 days exactly.     *)
DueIsBorrowPlusLoan ==
    \A i \in DOMAIN db.borrows :
        db.borrows[i].due_date = db.borrows[i].borrow_date + LoanDays * Day

----------------------------------------------------------------------------
(* the whole days by which a return at return_date is late: the largest n  *)
(* with n days <= return_date - due_date, 0 for a return that is on time   *)
WholeDaysLate(return_date, due_date) ==
    IF return_date <= due_date THEN 0
    ELSE CHOOSE n \in 0..(return_date - due_date) :
            /\ n * Day <= return_date - due_date
            /\ return_date - due_date < (n + 1) * Day

(* C11: a successful CreateReturn adds exactly 2 * days_late to the        *)
(* penalty_points of the borrow's owner, days_late being the whole days by *)
(* which return_date exceeds due_date (0 when on time or less than a day   *)
(* late).                                                                  *)
ReturnAddsPenalty ==
    [][\A r \in Reqs :
          (reqs[r].op = "return" /\ Finishes(r) /\ reqs'[r].outcome = "ok")
          => LET i == reqs[r].arg
                 o == db.borrows[i].user
             IN  db'.users[o].penalty_points
                   = db.users[o].penalty_points
                     + PenaltyPerDay * WholeDaysLate(db'.borrows[i].return_date,
                                                     db.borrows[i].due_date)]_vars

ReturnFailures == {"InvalidOrAlreadyReturned", "NotOwner"}

(* C12: a CreateReturn fails with InvalidOrAlreadyReturned when no Borrow  *)
(* has the id or the Borrow already has a return_date (also when that      *)
(* closed Borrow is another user's), and with NotOwner when the Borrow is  *)
(* open and its user is not the acting user; either way no book, borrow,   *)
(* user or notification changes.                                           *)
ReturnRefusals ==
    [][\A r \in Reqs :
          (reqs[r].pc = "idle" /\ reqs'[r].op = "return")
          => LET q == reqs'[r]
                 open == /\ q.arg \in DOMAIN db.borrows
                         /\ db.borrows[q.arg].return_date = NULL
                 expected == IF ~open THEN "InvalidOrAlreadyReturned"
                             ELSE IF db.borrows[q.arg].user # q.user THEN "NotOwner"
                             ELSE "none"
             IN  /\ q.outcome = expected
                 /\ q.pc = "done" <=> expected \in ReturnFailures
                 /\ db' = db]_vars

(* C12 witness: the owner has returned a borrow, and the other user's      *)
(* request to return the same, now closed, borrow was refused as already   *)
(* returned                                                                *)
ClosedBorrowOfAnotherRefused ==
    \E r1, r2 \in Reqs :
        /\ Done(r1) /\ reqs[r1].op = "return" /\ reqs[r1].outcome = "ok"
        /\ Done(r2) /\ reqs[r2].op = "return" /\ reqs[r2].arg = reqs[r1].arg
        /\ reqs[r2].user # db.borrows[reqs[r2].arg].user
        /\ reqs[r2].outcome = "InvalidOrAlreadyReturned"
        /\ db.borrows[reqs[r2].arg].return_date # NULL

----------------------------------------------------------------------------
(* CreateReturn with failures: the process may die, or a save() may raise, *)
(* after any number of the three saves and before the block commits.       *)

ReturnCrash(r) ==
    /\ reqs[r].pc = "commit"
    /\ \E n \in 0..2 :
          db' = Rollback(db, SaveUpTo(db, reqs[r].arg, reqs[r].rows, reqs[r].now, n))
    /\ reqs' = [reqs EXCEPT ![r] = Finish(reqs[r], "ServerError")]
    /\ UNCHANGED <<clock, db0>>

NextCrash ==
    \/ Next
    \/ \E r \in Reqs : ReturnCrash(r)

SpecCrash == Init /\ [][NextCrash]_vars

(* C13: CreateReturn is all-or-nothing.  The step that ends a return's     *)
(* save() either persists all of it (the Borrow closed at the time read,   *)
(* the book's count one above the count save() loaded, the owner's points  *)
(* raised by the penalty) and the request succeeds, or, when save() fails  *)
(* between its steps, persists none of it.                                 *)
ReturnAllOrNothing ==
    [][\A r \in Reqs :
          (reqs[r].pc = "commit" /\ reqs'[r].pc = "done")
          => LET q == reqs[r]
                 i == q.arg
                 b == q.rows.borrow.book
                 o == q.rows.borrow.user
             IN  IF reqs'[r].outcome = "ok"
                 THEN /\ db'.borrows[i].return_date = q.now
                      /\ db'.books[b].available_copies
                           = q.rows.book.available_copies + 1
                      /\ db'.users[o].penalty_points
                           = q.rows.owner.penalty_points
                             + PenaltyPerDay
                               * WholeDaysLate(q.now, q.rows.borrow.due_date)
                 ELSE db' = db]_vars

(* C13 witness: a return failed inside save(); its Borrow is still open    *)
(* and the book's count and the owner's points are what they were          *)
FailedReturnLeftNothing ==
    \E r \in Reqs :
        /\ Done(r) /\ reqs[r].op = "return" /\ reqs[r].outcome = "ServerError"
        /\ db.borrows[reqs[r].arg].return_date = NULL
        /\ db = db0

----------------------------------------------------------------------------
(* C14: when the acting user's email is missing or malformed, a            *)
(* CreateBorrow that has passed all four preconditions fails as a whole    *)
(* with InvalidNotificationTarget: no Borrow is persisted, no copy is      *)
(* taken and no message is handed to the mail transport.                   *)
BadEmailFailsBorrow ==
    [][\A r \in Reqs :
          (reqs[r].pc = "create" /\ reqs'[r].pc = "done")
          => LET email == db.users[reqs[r].user].email
             IN  (email = <<>> \/ ~FullMatch(email))
                 => /\ reqs'[r].outcome = "InvalidNotificationTarget"
                    /\ db'.borrows = db.borrows
                    /\ db'.books = db.books
                    /\ db'.outbox = db.outbox
                    /\ db'.users = db.users]_vars

(* C14 witness: a borrow by a user with a malformed email ended with       *)
(* InvalidNotificationTarget on a book that had a copy, nothing changed    *)
MalformedEmailBorrowFailed ==
    \E r \in Reqs :
        /\ Done(r) /\ reqs[r].op = "borrow"
        /\ reqs[r].outcome = "InvalidNotificationTarget"
        /\ db.users[reqs[r].user].email # <<>>
        /\ db.books[reqs[r].arg].available_copies > 0
        /\ db = db0

----------------------------------------------------------------------------
(* C15: the notification fires exactly once per Borrow created and never   *)
(* on an update: the messages dispatched are as many as the Borrow records *)
(* created, the i-th addressed to the user of the i-th Borrow about its    *)
(* book, so a CreateReturn dispatches none.                                *)
OneMessagePerBorrow ==
    /\ Len(db.outbox) = Len(db.borrows)
    /\ \A i \in DOMAIN db.borrows :
          /\ db.outbox[i].to = db.borrows[i].user
          /\ db.outbox[i].book = db.borrows[i].book

(* C15 witness: a borrow has been created and a return has succeeded since *)
(* the start                                                               *)
BorrowedAndReturned ==
    /\ Len(db.borrows) > Len(db0.borrows)
    /\ Len(db.outbox) = Len(db0.outbox) + 1
    /\ \E r \in Reqs :
          Done(r) /\ reqs[r].op = "return" /\ reqs[r].outcome = "ok"

----------------------------------------------------------------------------
(* a successful CreateBorrow (request r1) and then a successful            *)
(* CreateReturn (request r2) of the Borrow it created, and no other        *)
(* request since the start                                                 *)
RoundTrip(r1, r2) ==
    /\ Done(r1) /\ reqs[r1].op = "borrow" /\ reqs[r1].outcome = "ok"
    /\ Done(r2) /\ reqs[r2].op = "return" /\ reqs[r2].outcome = "ok"
    /\ reqs[r2].arg = Len(db0.borrows) + 1
    /\ \A r \in Reqs \ {r1, r2} : reqs[r].pc = "idle"

(* C16: a CreateBorrow followed by a CreateReturn of the Borrow it         *)
(* created, nothing else in between, leaves the book's available_copies    *)
(* at the value it had before the borrow.                                  *)
RoundTripRestoresCopies ==
    \A r1, r2 \in Reqs :
        RoundTrip(r1, r2)
        => db.books[reqs[r1].arg].available_copies
             = db0.books[reqs[r1].arg].available_copies

(* C16 witness: such a round trip has happened on a book, the Borrow it    *)
(* created is closed                                                       *)
RoundTripDone ==
    \E r1, r2 \in Reqs :
        /\ RoundTrip(r1, r2)
        /\ db.borrows[reqs[r2].arg].book = reqs[r1].arg
        /\ db.borrows[reqs[r2].arg].return_date # NULL

----------------------------------------------------------------------------
(* GET /users/<pk>/penalties/ : UserPenaltyView *)

(* the superuser of the service; the borrowers are not staff *)
Admin == "admin"

Staff == {Admin}

IsStaff(user) == user \in Staff

(* the permission check of the view: IsSelfOrAdmin defines only            *)
(* has_object_permission, so has_permission is the one it inherits, which  *)
(* allows every request                                                    *)
HasPermission(user) == TRUE

(* UserPenaltyView.get_object: request.user for 'me', else the user with   *)
(* that pk.  It replaces the generic get_object, the only caller of        *)
(* check_object_permissions, and does not call it, so                      *)
(* IsSelfOrAdmin.has_object_permission is never run.                       *)
GetObject(user, pk) == IF pk = "me" THEN user ELSE pk

(* the whole request: permission check, get_object, the serialized user.   *)
(* The administrator asks for borrowers by pk.                             *)
UserPenaltyView(r) ==
    /\ reqs[r].pc = "idle"
    /\ InOrder(r)
    /\ \E user \in Users \cup Staff, pk \in Users \cup {"me"} :
          /\ pk = "me" => user \in Users
          /\ LET q == [Idle EXCEPT !.op = "penalty", !.user = user, !.pk = pk]
                 obj == GetObject(user, pk)
             IN  reqs' = [reqs EXCEPT ![r] =
                             IF HasPermission(user)
                             THEN Finish([q EXCEPT !.data = db.users[obj].penalty_points],
                                         "ok")
                             ELSE Finish(q, "PermissionDenied")]
    /\ UNCHANGED <<db, clock, db0>>

NextPenalty ==
    \/ Next
    \/ \E r \in Reqs : UserPenaltyView(r)

SpecPenalty == Init /\ [][NextPenalty]_vars

(* C17: GetUserPenalty changes nothing and returns the target user's       *)
(* penalty_points exactly when the acting user is the target or an         *)
(* administrator; for any other acting user it is denied.                  *)
PenaltyViewGated ==
    [][\A r \in Reqs :
          (reqs[r].pc = "idle" /\ reqs'[r].op = "penalty")
          => LET q == reqs'[r]
                 target == IF q.pk = "me" THEN q.user ELSE q.pk
             IN  /\ db' = db
                 /\ IF target = q.user \/ IsStaff(q.user)
                    THEN /\ q.outcome = "ok"
                         /\ q.data = db.users[target].penalty_points
                    ELSE q.outcome = "PermissionDenied"]_vars

----------------------------------------------------------------------------
(* the penalty of the successful return q of Borrow q.arg *)
PenaltyOf(q) ==
    PenaltyPerDay * WholeDaysLate(q.now, db0.borrows[q.arg].due_date)

(* C18: penalty points accumulate: when two CreateReturn requests for two  *)
(* different borrows of the same user have both succeeded, served          *)
(* concurrently or not, and nothing else has run, the user's               *)
(* penalty_points are the initial points plus both penalties.              *)
BothPenaltiesCounted ==
    \A r1, r2 \in Reqs :
        (/\ r1 < r2
         /\ Done(r1) /\ reqs[r1].op = "return" /\ reqs[r1].outcome = "ok"
         /\ Done(r2) /\ reqs[r2].op = "return" /\ reqs[r2].outcome = "ok"
         /\ reqs[r1].arg # reqs[r2].arg
         /\ db.borrows[reqs[r1].arg].user = db.borrows[reqs[r2].arg].user
         /\ \A r \in Reqs \ {r1, r2} : reqs[r].pc = "idle")
        => LET o == db.borrows[reqs[r1].arg].user
           IN  db.users[o].penalty_points
                 = db0.users[o].penalty_points
                   + PenaltyOf(reqs[r1]) + PenaltyOf(reqs[r2])

----------------------------------------------------------------------------
(* api/serializers.py: BookSerializer, as the administrator's book         *)
(* create/update uses it                                                   *)

MaxCopies == 2

(* the numbers a request may give for a copies field *)
CopyValues == -1..MaxCopies

Fields == {"total_copies", "available_copies"}

(* the validated data: a value for each field the request carries *)
BookData == UNION {[S -> CopyValues] : S \in SUBSET Fields}

(* data.get(field, default) *)
Get(data, field, default) == IF field \in DOMAIN data THEN data[field] ELSE default

(* getattr(self.instance, field, default): instance is {} for None, and    *)
(* {row} for the Book under update                                         *)
GetAttr(instance, field, default) ==
    IF instance = {} THEN default ELSE (CHOOSE b \in instance : TRUE)[field]

(* a validate that takes 0 for a missing field also on update *)
BookValidateIgnoresStored(data, instance) ==
    LET total_copies == Get(data, "total_copies", 0)
        available_copies == Get(data, "available_copies", 0)
    IN  IF total_copies < 0 \/ available_copies < 0 THEN "NegativeCopies"
        ELSE IF available_copies > total_copies THEN "AvailableExceedsTotal"
        ELSE "ok"

(* BookSerializer.validate *)
BookValidate(data, instance) ==
    LET total_copies == Get(data, "total_copies", GetAttr(instance, "total_copies", 0))
        available_copies ==
            Get(data, "available_copies", GetAttr(instance, "available_copies", 0))
    IN  IF total_copies < 0 \/ available_copies < 0 THEN "NegativeCopies"
        ELSE IF available_copies > total_copies THEN "AvailableExceedsTotal"
        ELSE "ok"

(* serializer.save(): the row stored for valid data, a new Book from the   *)
(* data or the instance with the fields of the data set on it              *)
BookSave(data, instance) ==
    IF instance = {}
    THEN Book(data["total_copies"], data["available_copies"])
    ELSE LET old == CHOOSE b \in instance : TRUE
         IN  Book(Get(data, "total_copies", old.total_copies),
                  Get(data, "available_copies", old.available_copies))

(* one book request of the administrator: a create (id 0; both fields are  *)
(* required) or an update of the Book id, full or partial                  *)
SaveBook(r) ==
    /\ reqs[r].pc = "idle"
    /\ InOrder(r)
    /\ \E id \in {0} \cup DOMAIN db.books, data \in BookData :
          /\ id = 0 => DOMAIN data = Fields
          /\ LET instance == IF id = 0 THEN {} ELSE {db.books[id]}
                 v == BookValidate(data, instance)
                 q == [Idle EXCEPT !.op = "book", !.user = Admin, !.arg = id]
             IN  /\ reqs' = [reqs EXCEPT ![r] = Finish(q, v)]
                 /\ db' = IF v # "ok" THEN db
                          ELSE IF id = 0
                          THEN [db EXCEPT !.books = Append(@, BookSave(data, instance))]
                          ELSE [db EXCEPT !.books[id] = BookSave(data, instance)]
    /\ UNCHANGED <<clock, db0>>

NextBook == \E r \in Reqs : SaveBook(r)

SpecBook == Init /\ [][NextBook]_vars

BookRejections == {"NegativeCopies", "AvailableExceedsTotal"}

(* a Book row with non-negative copies, no more available than in total *)
Consistent(book) ==
    /\ 0 <= book.total_copies
    /\ 0 <= book.available_copies
    /\ book.available_copies <= book.total_copies

(* C19: a Book create or update through the book serializer whose          *)
(* resulting total_copies or available_copies is negative, or whose        *)
(* resulting available_copies exceeds total_copies (a field missing from a *)
(* partial update keeping its stored value), is rejected and stores or     *)
(* changes no Book: whatever an accepted request stores is consistent, and *)
(* a request that is not accepted leaves the books as they were.           *)
InconsistentBookRejected ==
    [][\A r \in Reqs :
          (reqs[r].pc = "idle" /\ reqs'[r].op = "book")
          => LET id == reqs'[r].arg
                 stored == IF id = 0 THEN Len(db.books) + 1 ELSE id
             IN  IF reqs'[r].outcome = "ok"
                 THEN /\ id = 0 => Len(db'.books) = Len(db.books) + 1
                      /\ Consistent(db'.books[stored])
                      /\ \A b \in DOMAIN db.books \ {stored} :
                            db'.books[b] = db.books[b]
                 ELSE /\ reqs'[r].outcome \in BookRejections
                      /\ db' = db]_vars

(* C19 witness: one update of a Book was accepted and stored, another was  *)
(* rejected because the available copies would exceed the total            *)
BookUpdateRejected ==
    \E r1, r2 \in Reqs :
        /\ Done(r1) /\ reqs[r1].op = "book" /\ reqs[r1].arg # 0
        /\ reqs[r1].outcome = "ok"
        /\ Done(r2) /\ reqs[r2].op = "book" /\ reqs[r2].arg # 0
        /\ reqs[r2].outcome = "AvailableExceedsTotal"
        /\ db.books # db0.books

----------------------------------------------------------------------------
(* C20: a successful CreateReturn changes only the return_date of its      *)
(* Borrow, the available_copies of that Borrow's book, by exactly +1, and  *)
(* the penalty_points of its owner; every other Borrow, Book and User and  *)
(* the book's total_copies stay as they were.                              *)
ReturnChangesOnlyItsRows ==
    [][\A r \in Reqs :
          (reqs[r].op = "return" /\ Finishes(r) /\ reqs'[r].outcome = "ok")
          => LET i == reqs[r].arg
                 b == db.borrows[i].book
                 o == db.borrows[i].user
             IN  /\ DOMAIN db'.borrows = DOMAIN db.borrows
                 /\ db'.borrows[i] =
                      [db.borrows[i] EXCEPT !.return_date = db'.borrows[i].return_date]
                 /\ \A j \in DOMAIN db.borrows \ {i} : db'.borrows[j] = db.borrows[j]
                 /\ db'.books[b].available_copies = db.books[b].available_copies + 1
                 /\ db'.books[b].total_copies = db.books[b].total_copies
                 /\ \A c \in BookIds \ {b} : db'.books[c] = db.books[c]
                 /\ \A u \in Users \ {o} : db'.users[u] = db.users[u]
                 /\ db'.users[o].email = db.users[o].email]_vars

----------------------------------------------------------------------------
(* C21: conservation of copies.  For every book, available_copies plus the *)
(* number of its open Borrow records is, in every reachable state, what it *)
(* was in the initial state.                                               *)
CopiesConserved ==
    \A b \in BookIds :
        db.books[b].available_copies + OpenOn(db.borrows, b)
          = db0.books[b].available_copies + OpenOn(db0.borrows, b)

----------------------------------------------------------------------------
(* C22: once a user's penalty_points are 50 or more they stay so, no       *)
(* operation lowering them, and no CreateBorrow of that user that arrives  *)
(* from then on (it loads the points on arrival) succeeds.                 *)
BlockedForGood ==
    [][/\ \A u \in Users :
             db.users[u].penalty_points >= PenaltyLimit
             => db'.users[u].penalty_points >= PenaltyLimit
       /\ \A r \in Reqs :
             (/\ reqs[r].op = "borrow"
              /\ reqs[r].points >= PenaltyLimit
              /\ Finishes(r))
             => reqs'[r].outcome # "ok"]_vars

----------------------------------------------------------------------------
(* The server runs a request it has accepted to its end: a return that has *)
(* been validated goes on to load its rows, and one that has loaded them   *)
(* goes on to write them and commit.                                       *)
(* Beside the returns, whose steps interleave as before, a borrow is       *)
(* served here from arrival to response in one step: what a return meets   *)
(* of a borrow is its commit.                                              *)
BorrowAtOnce(r) ==
    /\ reqs[r].pc = "idle"
    /\ InOrder(r)
    /\ \E user \in Users, arg \in BookIds \cup {NoSuchId},
          now2 \in clock..(clock + 1) :
          /\ now2 <= MaxClock
          /\ LET q == [Idle EXCEPT !.op = "borrow", !.user = user, !.arg = arg,
                                   !.now = clock, !.now2 = now2]
                 res == SerialBorrow(db, q)
                 created == res.outcome \in {"ok", "InvalidNotificationTarget"}
             IN  /\ created \/ now2 = clock
                 /\ db' = res.db
                 /\ reqs' = [reqs EXCEPT ![r] = Finish(q, res.outcome)]
                 /\ clock' = now2
    /\ UNCHANGED db0

NextFair ==
    \/ \E r \in Reqs : BorrowAtOnce(r)
    \/ \E r \in Reqs : StartReturn(r)
    \/ \E r \in Reqs : ReturnLoad(r)
    \/ \E r \in Reqs : ReturnCommit(r)
    \/ Tick

SpecFair ==
    /\ Init
    /\ [][NextFair]_vars
    /\ \A r \in Reqs : WF_vars(ReturnLoad(r)) /\ WF_vars(ReturnCommit(r))

(* request r is a return that has ended successfully, its Borrow closed *)
ReturnedOk(r) ==
    IF Done(r) /\ reqs[r].op = "return" /\ reqs[r].outcome = "ok"
    THEN db.borrows[reqs[r].arg].return_date # NULL
    ELSE FALSE

(* request r is a return that validation has accepted *)
Accepted(r) == reqs[r].op = "return" /\ reqs[r].pc = "save"

(* C23: a CreateReturn by the owner of an open Borrow is accepted whatever *)
(* the owner's penalty_points and open borrows and the book's copies, and  *)
(* an accepted return ends successfully with the Borrow closed: every open *)
(* Borrow can eventually be closed.                                        *)
OwnerReturnSucceeds ==
    /\ [][\A r \in Reqs :
             (/\ reqs[r].pc = "idle"
              /\ reqs'[r].op = "return"
              /\ reqs'[r].arg \in DOMAIN db.borrows
              /\ db.borrows[reqs'[r].arg].return_date = NULL
              /\ db.borrows[reqs'[r].arg].user = reqs'[r].user)
             => reqs'[r].pc = "save"]_vars
    /\ \A r \in Reqs : Accepted(r) ~> ReturnedOk(r)

(* C23 witness: the owner, already at the penalty limit and with other     *)
(* borrows still open, has returned a borrow of a book that had no copy    *)
(* available                                                               *)
ReturnedAtPenaltyLimit ==
    \E r \in Reqs :
        /\ Done(r) /\ reqs[r].op = "return" /\ reqs[r].outcome = "ok"
        /\ db.borrows[reqs[r].arg].return_date # NULL
        /\ db.users[reqs[r].user].penalty_points >= PenaltyLimit
        /\ ActiveBorrows(db.borrows, reqs[r].user) > 0
        /\ db0.books[db.borrows[reqs[r].arg].book].available_copies = 0
        /\ db.users[reqs[r].user].penalty_points
             > db0.users[reqs[r].user].penalty_points + PenaltyOf(reqs[r])

====
